---- MODULE Spec2Model ----
(***************************************************************************)
(* Model of the analytical report generator: type coercion                 *)
(* (data_types.py), the metrics engine (analysis.py) and the command line  *)
(* pipeline (report_cli.py) with the two report builders.                  *)
(*                                                                         *)
(* A DataFrame is a record [cols, rows]: cols is the set of column names,  *)
(* rows the sequence of rows, each a function from cols to cells.  A cell  *)
(* is a record tagged by kind:                                             *)
(*   "nan"       a missing value (NaN / None)                              *)
(*   "text"      a string that is neither a number nor a date              *)
(*   "num_text"  a string of decimal digits with an optional sign          *)
(*   "date_text" a string "y-m-d hh:00"                                    *)
(*   "num"       a number                                                  *)
(*   "ts"        a timestamp, counted in half days since 2024-01-01 00:00  *)
(*   "nat"       NaT, the missing timestamp                                *)
(***************************************************************************)
EXTENDS Integers, Sequences, FiniteSets, TLC

VARIABLES pc, args, df_in, df, metrics, freq, file, env, fs, charts, events, raised, exitcode

vars == <<pc, args, df_in, df, metrics, freq, file, env, fs, charts, events, raised,
         exitcode>>

\* Python's None for an optional string argument; no column bears this name.
None == "None"

\* Python truthiness of an optional string: None and "" are falsy.
Truthy(s) == s # None /\ s # ""

NaN == [kind |-> "nan"]
NaT == [kind |-> "nat"]
Num(v) == [kind |-> "num", v |-> v]
Ts(t) == [kind |-> "ts", t |-> t]
Text(s) == [kind |-> "text", s |-> s]
NumText(neg, digits) == [kind |-> "num_text", neg |-> neg, digits |-> digits]
DateText(y, m, d, h) == [kind |-> "date_text", y |-> y, m |-> m, d |-> d, h |-> h]

IsNA(c) == c.kind \in {"nan", "nat"}

(***************************************************************************)
(* The calendar.  Timestamps count half days from 2024-01-01 00:00, which  *)
(* is a Monday; the model covers the years 2024 and 2025.                  *)
(***************************************************************************)
IsLeap(y) == (y % 4 = 0 /\ y % 100 # 0) \/ y % 400 = 0

DaysInMonth(y, m) ==
    IF m = 2 THEN (IF IsLeap(y) THEN 29 ELSE 28)
    ELSE IF m \in {4, 6, 9, 11} THEN 30 ELSE 31

DaysInYear(y) == IF IsLeap(y) THEN 366 ELSE 365

RECURSIVE DaysBeforeMonth(_, _)
DaysBeforeMonth(y, m) ==
    IF m = 1 THEN 0 ELSE DaysBeforeMonth(y, m - 1) + DaysInMonth(y, m - 1)

\* Day number of y-m-d, 2024-01-01 being day 0.
Ordinal(y, m, d) ==
    (IF y = 2025 THEN DaysInYear(2024) ELSE 0) + DaysBeforeMonth(y, m) + (d - 1)

ValidDate(y, m, d, h) ==
    /\ y \in {2024, 2025}
    /\ m \in 1..12
    /\ d \in 1..DaysInMonth(y, m)
    /\ h \in {0, 12}

(***************************************************************************)
(* pd.to_datetime(..., errors='coerce') on one cell: a well-formed date    *)
(* string becomes its timestamp, everything else NaT.                      *)
(***************************************************************************)
to_datetime(c) ==
    IF c.kind = "ts" THEN c
    ELSE IF c.kind = "date_text" /\ ValidDate(c.y, c.m, c.d, c.h)
         THEN Ts(2 * Ordinal(c.y, c.m, c.d) + (IF c.h = 12 THEN 1 ELSE 0))
         ELSE NaT

RECURSIVE DigitsValue(_)
DigitsValue(ds) ==
    IF ds = <<>> THEN 0
    ELSE 10 * DigitsValue(SubSeq(ds, 1, Len(ds) - 1)) + ds[Len(ds)]

(***************************************************************************)
(* pd.to_numeric(..., errors='coerce') on one cell: a number stays, a      *)
(* string of digits becomes its value, everything else NaN.                *)
(***************************************************************************)
to_numeric(c) ==
    IF c.kind = "num" THEN c
    ELSE IF c.kind = "num_text" /\ c.digits # <<>>
         THEN Num(IF c.neg THEN 0 - DigitsValue(c.digits) ELSE DigitsValue(c.digits))
         ELSE NaN

fillna(c, v) == IF IsNA(c) THEN Num(v) ELSE c

(***************************************************************************)
(* DataFrame helpers.                                                      *)
(***************************************************************************)
\* df[col] = pd.to_datetime(df[col], errors='coerce')
ToDatetimeColumn(d, col) ==
    [d EXCEPT !.rows = [i \in 1..Len(d.rows) |->
                           [d.rows[i] EXCEPT ![col] = to_datetime(d.rows[i][col])]]]

\* df[col] = pd.to_numeric(df[col], errors='coerce')
ToNumericColumn(d, col) ==
    [d EXCEPT !.rows = [i \in 1..Len(d.rows) |->
                           [d.rows[i] EXCEPT ![col] = to_numeric(d.rows[i][col])]]]

\* df[col] = df[col].fillna(v)
FillnaColumn(d, col, v) ==
    [d EXCEPT !.rows = [i \in 1..Len(d.rows) |->
                           [d.rows[i] EXCEPT ![col] = fillna(d.rows[i][col], v)]]]

\* The rows whose cell in col is present, in their order.
RECURSIVE RowsWithValue(_, _)
RowsWithValue(rows, col) ==
    IF rows = <<>> THEN <<>>
    ELSE IF IsNA(Head(rows)[col]) THEN RowsWithValue(Tail(rows), col)
         ELSE <<Head(rows)>> \o RowsWithValue(Tail(rows), col)

\* df.dropna(subset=[col])
dropna(d, col) == [d EXCEPT !.rows = RowsWithValue(d.rows, col)]

(***************************************************************************)
(* Paths and the file system.  A path is the sequence of its components,   *)
(* each a record [stem, ext] with ext the sequence of the characters of    *)
(* its extension; the empty sequence stands for the empty string and for   *)
(* None, which the code treats alike (both are falsy).  fs is the set of   *)
(* the paths that exist.                                                   *)
(***************************************************************************)
NoPath == <<>>

Comp(stem, ext) == [stem |-> stem, ext |-> ext]

\* os.path.dirname
dirname(path) == IF path = <<>> THEN <<>> ELSE SubSeq(path, 1, Len(path) - 1)

\* os.path.splitext(path)[1]
splitext(path) == IF path = <<>> THEN <<>> ELSE path[Len(path)].ext

\* One character of str.lower().
LowerChar(ch) ==
    CASE ch = "C" -> "c" [] ch = "S" -> "s" [] ch = "V" -> "v" [] ch = "J" -> "j"
      [] ch = "O" -> "o" [] ch = "N" -> "n" [] ch = "T" -> "t" [] ch = "X" -> "x"
      [] OTHER -> ch

\* str.lower()
lower(chars) == [i \in 1..Len(chars) |-> LowerChar(chars[i])]

\* os.path.exists
exists(files, path) == path \in files

\* os.makedirs(path, exist_ok=True): the set of paths afterwards; the empty
\* path raises FileNotFoundError.
makedirs(files, path) ==
    IF path = <<>> THEN [ok |-> FALSE, exc |-> "FileNotFoundError", fs |-> files]
    ELSE [ok |-> TRUE, exc |-> None,
          fs |-> files \cup {SubSeq(path, 1, k) : k \in 1..Len(path)}]

(***************************************************************************)
(* read_table(path): the DataFrame read, or the exception raised.  fault   *)
(* is the failure that reading or parsing the file meets, "none" when it   *)
(* meets none; content is the table the file holds.                        *)
(***************************************************************************)
Returned(d) == [ok |-> TRUE, exc |-> None, df |-> d]
Raised(e) == [ok |-> FALSE, exc |-> e, df |-> [cols |-> {}, rows |-> <<>>]]

\* The extension compared without lower().
read_table_case_sensitive(files, path, fault, content) ==
    IF ~exists(files, path) THEN Raised("FileNotFoundError")
    ELSE IF splitext(path) \in {<<".", "c", "s", "v">>, <<".", "j", "s", "o", "n">>}
         THEN (IF fault # "none" THEN Raised("ValueError") ELSE Returned(content))
         ELSE Raised("ValueError")

read_table(files, path, fault, content) ==
    IF ~exists(files, path) THEN Raised("FileNotFoundError")
    ELSE LET file_ext == lower(splitext(path))
         IN  IF file_ext \in {<<".", "c", "s", "v">>, <<".", "j", "s", "o", "n">>}
             THEN (IF fault # "none" THEN Raised("ValueError") ELSE Returned(content))
             ELSE Raised("ValueError")

(***************************************************************************)
(* enforce_types(df, date_col, amount_col)                                 *)
(***************************************************************************)
\* Converting the dates without dropping the rows that have none.
EnforceDates_keep(d, date_col) ==
    IF Truthy(date_col) /\ date_col \in d.cols
    THEN ToDatetimeColumn(d, date_col)
    ELSE d

EnforceDates(d, date_col) ==
    IF Truthy(date_col) /\ date_col \in d.cols
    THEN dropna(ToDatetimeColumn(d, date_col), date_col)
    ELSE d

\* Dropping the rows without a number instead of filling them with 0.
EnforceAmounts_dropna(d, amount_col) ==
    IF Truthy(amount_col) /\ amount_col \in d.cols
    THEN dropna(ToNumericColumn(d, amount_col), amount_col)
    ELSE d

EnforceAmounts(d, amount_col) ==
    IF Truthy(amount_col) /\ amount_col \in d.cols
    THEN FillnaColumn(ToNumericColumn(d, amount_col), amount_col, 0)
    ELSE d

enforce_types(d, date_col, amount_col) ==
    EnforceAmounts(EnforceDates(d, date_col), amount_col)

(***************************************************************************)
(* Series helpers.                                                         *)
(***************************************************************************)
\* The value a cell adds to a sum: missing values are skipped (skipna).
NumVal(c) == IF c.kind = "num" THEN c.v ELSE 0

\* df[col].sum()
RECURSIVE SumColumn(_, _)
SumColumn(rows, col) ==
    IF rows = <<>> THEN 0 ELSE NumVal(Head(rows)[col]) + SumColumn(Tail(rows), col)

\* df[col].count(): the number of values that are not missing.
RECURSIVE CountColumn(_, _)
CountColumn(rows, col) ==
    IF rows = <<>> THEN 0
    ELSE (IF IsNA(Head(rows)[col]) THEN 0 ELSE 1) + CountColumn(Tail(rows), col)

Abs(x) == IF x < 0 THEN 0 - x ELSE x

RECURSIVE Gcd(_, _)
Gcd(a, b) == IF b = 0 THEN a ELSE Gcd(b, a % b)

\* The float n / d, kept exact as a fraction in lowest terms; 0 / 0 is NaN.
Quotient(n, d) ==
    IF d = 0 THEN NaN
    ELSE LET g == Gcd(Abs(n), d)
         IN  [kind |-> "frac", num |-> n \div g, den |-> d \div g]

\* The mean over the rows whose amount is not zero.
RECURSIVE CountNonZero(_, _)
CountNonZero(rows, col) ==
    IF rows = <<>> THEN 0
    ELSE (IF NumVal(Head(rows)[col]) = 0 THEN 0 ELSE 1) + CountNonZero(Tail(rows), col)

MeanColumn_nonzero(rows, col) == Quotient(SumColumn(rows, col), CountNonZero(rows, col))

\* df[col].mean()
MeanColumn(rows, col) == Quotient(SumColumn(rows, col), CountColumn(rows, col))

\* The rows whose cell in col equals key, in their order.
RECURSIVE RowsOfKey(_, _, _)
RowsOfKey(rows, col, key) ==
    IF rows = <<>> THEN <<>>
    ELSE IF Head(rows)[col] = key THEN <<Head(rows)>> \o RowsOfKey(Tail(rows), col, key)
         ELSE RowsOfKey(Tail(rows), col, key)

\* The keys of df.groupby(col): the distinct values of col, missing ones dropped.
GroupKeys(rows, col) ==
    {rows[i][col] : i \in {j \in 1..Len(rows) : ~IsNA(rows[j][col])}}

\* The first amount of each group in place of the sum of its amounts.
GroupSum_first(rows, by, col) ==
    [k \in GroupKeys(rows, by) |-> NumVal(Head(RowsOfKey(rows, by, k))[col])]

\* df.groupby(by)[col].sum() as a function from the group keys to the sums.
GroupSum(rows, by, col) ==
    [k \in GroupKeys(rows, by) |-> SumColumn(RowsOfKey(rows, by, k), col)]

\* head taking one entry too many.
head_one_more(seq, n) ==
    SubSeq(seq, 1, IF n + 1 < Len(seq) THEN n + 1 ELSE Len(seq))

\* series.head(n): the first n entries, all but the last -n when n is negative.
head(seq, n) ==
    IF n >= 0 THEN SubSeq(seq, 1, IF n < Len(seq) THEN n ELSE Len(seq))
    ELSE SubSeq(seq, 1, Len(seq) + n)

(***************************************************************************)
(* _get_top_items(df, amount_col, topn)                                    *)
(***************************************************************************)
item_cols == <<"item", "product", "name", "category">>

\* The loop over item_cols: the first candidate that is a column, else None.
RECURSIVE FirstColumnIn(_, _)
FirstColumnIn(cands, cols) ==
    IF cands = <<>> THEN None
    ELSE IF Head(cands) \in cols THEN Head(cands)
         ELSE FirstColumnIn(Tail(cands), cols)

\* The candidates tried in another order.
item_col_reordered(d) == FirstColumnIn(<<"item", "name", "product", "category">>, d.cols)

item_col(d) == FirstColumnIn(item_cols, d.cols)

EmptyTopItems == [columns |-> <<"item", "amount">>, rows |-> <<>>]

\* series.sort_values(ascending=False): every arrangement of the groups with
\* non-increasing sums; the order among equal sums is not specified.
SortedDescending(sums) ==
    LET keys == DOMAIN sums
        n    == Cardinality(keys)
    IN  {o \in [1..n -> keys] :
            /\ \A i, j \in 1..n : i # j => o[i] # o[j]
            /\ \A i \in 1..n : \A j \in 1..n : i < j => sums[o[i]] >= sums[o[j]]}

\* The set of tables _get_top_items can return.
get_top_items(d, amount_col, topn) ==
    IF ~Truthy(item_col(d)) \/ ~Truthy(amount_col) \/ amount_col \notin d.cols
    THEN {EmptyTopItems}
    ELSE LET sums == GroupSum(d.rows, item_col(d), amount_col)
         IN  {[columns |-> <<"item", "amount">>,
               rows    |-> LET top == head(o, topn)
                           IN  [i \in 1..Len(top) |->
                                   [item |-> top[i], amount |-> sums[top[i]]]]] :
              o \in SortedDescending(sums)}

(***************************************************************************)
(* _get_time_series(df, date_col, amount_col)                              *)
(***************************************************************************)
RangeMonthly == 180
RangeWeekly == 60

EmptyTimeSeries == [columns |-> <<"date", "amount">>, rows |-> <<>>]

SetMax(S) == CHOOSE x \in S : \A y \in S : y <= x
SetMin(S) == CHOOSE x \in S : \A y \in S : x <= y

\* The elements of a set of integers in increasing order.
RECURSIVE Ascending(_)
Ascending(S) ==
    IF S = {} THEN <<>> ELSE <<SetMin(S)>> \o Ascending(S \ {SetMin(S)})

\* Timedelta.days of the difference of two timestamps: whole days, rounded down.
Days(t1, t0) == (t1 - t0) \div 2

\* The thresholds taken inclusively.
choose_freq_inclusive(date_range) ==
    IF date_range >= RangeMonthly THEN "MS"
    ELSE IF date_range >= RangeWeekly THEN "W-MON"
    ELSE "D"

\* The if / elif / else that picks the resampling frequency.
choose_freq(date_range) ==
    IF date_range > RangeMonthly THEN "MS"
    ELSE IF date_range > RangeWeekly THEN "W-MON"
    ELSE "D"

MonthStarts == {Ordinal(y, m, 1) : y \in {2024, 2025}, m \in 1..12}

\* Weeks labelled by the Monday that starts them.
BucketLabel_week_start(fq, t) ==
    LET day == t \div 2
    IN  IF fq = "D" THEN 2 * day
        ELSE IF fq = "W-MON" THEN 2 * (7 * (day \div 7))
        ELSE 2 * SetMax({s \in MonthStarts : s <= day})

\* The label of the bucket a timestamp falls into.
\*   D      the day, [00:00, 24:00)
\*   W-MON  the week that ends with a Monday, labelled by that Monday
\*   MS     the calendar month, labelled by its first day
BucketLabel(fq, t) ==
    LET day == t \div 2
    IN  IF fq = "D" THEN 2 * day
        ELSE IF fq = "W-MON" THEN 2 * (7 * ((day + 6) \div 7))
        ELSE 2 * SetMax({s \in MonthStarts : s <= day})

\* Every bucket label from the first to the last one, empty buckets included.
BucketLabels(fq, first, last) ==
    IF fq = "D" THEN {t \in first..last : t % 2 = 0}
    ELSE IF fq = "W-MON" THEN {t \in first..last : t % 14 = 0}
    ELSE {2 * s : s \in {m \in MonthStarts : first <= 2 * m /\ 2 * m <= last}}

\* ts_df.set_index('date').resample(freq).sum().reset_index()
resample_sum(sums, fq) ==
    LET stamps == DOMAIN sums
        first  == BucketLabel(fq, SetMin(stamps))
        last   == BucketLabel(fq, SetMax(stamps))
        labels == Ascending(BucketLabels(fq, first, last))
        RECURSIVE Total(_)
        Total(S) == IF S = {} THEN 0
                    ELSE LET t == CHOOSE x \in S : TRUE
                         IN  sums[t] + Total(S \ {t})
    IN  [i \in 1..Len(labels) |->
            [date   |-> labels[i],
             amount |-> Total({t \in stamps : BucketLabel(fq, t) = labels[i]})]]

\* One amount kept for each date in place of the sum of its amounts.
DateSums_first(d, date_col, amount_col) ==
    LET g == GroupSum_first(d.rows, date_col, amount_col)
    IN  [t \in {k.t : k \in DOMAIN g} |-> g[Ts(t)]]

\* df.groupby(date_col)[amount_col].sum(): timestamp -> sum, NaT dropped.
DateSums(d, date_col, amount_col) ==
    LET g == GroupSum(d.rows, date_col, amount_col)
    IN  [t \in {k.t : k \in DOMAIN g} |-> g[Ts(t)]]

\* The local freq of _get_time_series: None when the function returns before
\* assigning it.
time_series_freq(d, date_col, amount_col) ==
    IF ~Truthy(date_col) \/ ~Truthy(amount_col)
       \/ date_col \notin d.cols \/ amount_col \notin d.cols
    THEN None
    ELSE LET sums == DateSums(d, date_col, amount_col)
         IN  IF DOMAIN sums = {} THEN None
             ELSE choose_freq(Days(SetMax(DOMAIN sums), SetMin(DOMAIN sums)))

get_time_series(d, date_col, amount_col) ==
    IF ~Truthy(date_col) \/ ~Truthy(amount_col)
       \/ date_col \notin d.cols \/ amount_col \notin d.cols
    THEN EmptyTimeSeries
    ELSE LET sums == DateSums(d, date_col, amount_col)
         IN  [columns |-> <<"date", "amount">>,
              rows    |-> IF DOMAIN sums = {} THEN <<>>
                          ELSE resample_sum(sums,
                                   time_series_freq(d, date_col, amount_col))]

(***************************************************************************)
(* compute_metrics(df, date_col, amount_col, topn): the set of metrics     *)
(* dictionaries it can return.                                             *)
(***************************************************************************)
compute_metrics(d, date_col, amount_col, topn) ==
    LET has_amount == Truthy(amount_col) /\ amount_col \in d.cols
    IN  {[total_sales  |-> IF has_amount THEN Quotient(SumColumn(d.rows, amount_col), 1)
                           ELSE Quotient(0, 1),
          avg_ticket   |-> IF has_amount THEN MeanColumn(d.rows, amount_col)
                           ELSE Quotient(0, 1),
          total_orders |-> Len(d.rows),
          top_items    |-> top,
          time_series  |-> get_time_series(d, date_col, amount_col)] :
         top \in get_top_items(d, amount_col, topn)}

(***************************************************************************)
(* Inputs.                                                                 *)
(***************************************************************************)
MaxRows == 3
MaxTopN == 3
MaxNegTopN == 2

AllColumns == {"date", "amount", "item", "product", "name", "category", "Item"}

\* A full row; a DataFrame keeps the cells of its own columns.
Row(date, amount, k1, k2) ==
    [c \in AllColumns |->
        IF c = "date" THEN date
        ELSE IF c = "amount" THEN amount
        ELSE IF c \in {"item", "name"} THEN k1
        ELSE k2]

Frame(cols, full) ==
    [cols |-> cols,
     rows |-> [i \in 1..Len(full) |-> [c \in cols |-> full[i][c]]]]

RowSeqs(templates) == UNION {[1..n -> templates] : n \in 0..MaxRows}

NewYear == DateText(2024, 1, 1, 0)

\* Rows that differ in their grouping values and amounts.
ItemRows ==
    {Row(NewYear, NumText(FALSE, <<3>>), Text("A"), Text("X")),
     Row(NewYear, NumText(FALSE, <<3>>), Text("B"), Text("X")),
     Row(NewYear, Num(5), Text("C"), Text("Y")),
     Row(DateText(2024, 2, 30, 0), NumText(FALSE, <<1, 2>>), Text("A"), Text("Y")),
     Row(NewYear, Text("n/a"), Text("B"), NaN),
     Row(NewYear, NumText(TRUE, <<4>>), NaN, Text("X")),
     Row(NewYear, NaN, Text("C"), Text("X"))}

ItemColumnSets ==
    {{"date", "amount"},
     {"date", "amount", "Item"},
     {"date", "amount", "item", "product"},
     {"date", "amount", "product", "name"},
     {"date", "amount", "name", "category", "Item"},
     {"date", "amount", "category"}}

\* Rows that differ in their dates.
DateRows ==
    {Row(DateText(2024, 1, 1, 0), NumText(FALSE, <<1>>), Text("A"), Text("X")),
     Row(DateText(2024, 1, 1, 12), NumText(FALSE, <<2>>), Text("B"), Text("X")),
     Row(DateText(2024, 3, 1, 12), NumText(FALSE, <<3>>), Text("A"), Text("X")),
     Row(DateText(2024, 3, 2, 0), NumText(FALSE, <<4>>), Text("B"), Text("X")),
     Row(DateText(2024, 6, 29, 12), NumText(FALSE, <<5>>), Text("A"), Text("X")),
     Row(DateText(2024, 6, 30, 0), NumText(FALSE, <<6>>), Text("B"), Text("X")),
     Row(DateText(2024, 2, 30, 0), NumText(FALSE, <<7>>), Text("A"), Text("X")),
     Row(NaN, Text("n/a"), Text("B"), Text("X"))}

DefaultTopN == 5

NoArgs == [input |-> NoPath, datecol |-> None, amountcol |-> None,
           pdf |-> NoPath, pptx |-> NoPath, topn |-> DefaultTopN]

NoFile == [fault |-> "none"]

NoCharts == [timeseries_png |-> NoPath, top_items_png |-> NoPath,
             daily_count_png |-> NoPath, monthly_sales_png |-> NoPath,
             cumulative_png |-> NoPath, distribution_png |-> NoPath]

NoFrame == [cols |-> {}, rows |-> <<>>]

NoMetrics == [total_sales |-> NaN, avg_ticket |-> NaN, total_orders |-> 0,
              top_items |-> EmptyTopItems, time_series |-> EmptyTimeSeries]

\* A caller holding a table and its column arguments.
InitWith(frames, datecols, amountcols, topns) ==
    /\ pc = "raw"
    /\ df_in \in frames
    /\ args \in {[NoArgs EXCEPT !.datecol = dc, !.amountcol = ac, !.topn = n] :
                    dc \in datecols, ac \in amountcols, n \in topns}
    /\ df = NoFrame
    /\ metrics = NoMetrics
    /\ freq = None
    /\ file = NoFile
    /\ env = {}
    /\ fs = {}
    /\ charts = NoCharts
    /\ events = <<>>
    /\ raised = None
    /\ exitcode = -1

Init ==
    InitWith({Frame(cols, full) : cols \in ItemColumnSets, full \in RowSeqs(ItemRows)},
             {"date"}, {None, "amount", "Amount"}, (0 - MaxNegTopN)..MaxTopN)

InitTS ==
    InitWith({Frame({"date", "amount", "item"}, full) : full \in RowSeqs(DateRows)},
             {None, "date", "Date"}, {None, "amount"}, {DefaultTopN})

(***************************************************************************)
(* The library pipeline, as both callers run it: enforce_types, then       *)
(* compute_metrics on its result with the same column arguments.           *)
(***************************************************************************)
\* enforce_types writing the converted columns into the table it was given.
EnforceTypes_in_place ==
    /\ pc = "raw"
    /\ df' = enforce_types(df_in, args.datecol, args.amountcol)
    /\ df_in' = IF Truthy(args.datecol) /\ args.datecol \in df_in.cols
                THEN ToDatetimeColumn(df_in, args.datecol)
                ELSE EnforceAmounts(df_in, args.amountcol)
    /\ pc' = "typed"
    /\ UNCHANGED <<args, metrics, freq, file, env, fs, charts, events, raised, exitcode>>

EnforceTypes ==
    /\ pc = "raw"
    /\ df' = enforce_types(df_in, args.datecol, args.amountcol)
    /\ pc' = "typed"
    /\ UNCHANGED <<args, df_in, metrics, freq, file, env, fs, charts, events, raised,
                   exitcode>>

ComputeMetrics ==
    /\ pc = "typed"
    /\ metrics' \in compute_metrics(df, args.datecol, args.amountcol, args.topn)
    /\ freq' = time_series_freq(df, args.datecol, args.amountcol)
    /\ pc' = "computed"
    /\ UNCHANGED <<args, df_in, df, file, env, fs, charts, events, raised, exitcode>>

Next == EnforceTypes \/ ComputeMetrics

Spec == Init /\ [][Next]_vars

SpecTS == InitTS /\ [][Next]_vars

(***************************************************************************)
(* read_table called on its own.                                           *)
(***************************************************************************)
Extensions ==
    {<<".", "c", "s", "v">>, <<".", "C", "S", "V">>, <<".", "C", "s", "v">>,
     <<".", "j", "s", "o", "n">>, <<".", "J", "S", "O", "N">>,
     <<".", "t", "x", "t">>, <<".", "x", "l", "s", "x">>, <<"c", "s", "v">>, <<>>}

\* What can go wrong while an existing file is read and parsed.
ReadFaults ==
    {"none", "PermissionError", "IsADirectoryError", "UnicodeDecodeError",
     "ParserError", "EmptyDataError", "JSONDecodeError", "ValueError"}

SmallFrames ==
    {Frame({"date", "amount", "item"}, full) :
        full \in UNION {[1..n -> {Row(DateText(2024, 1, 1, 0), NumText(FALSE, <<1>>),
                                      Text("A"), Text("X")),
                                  Row(Text("soon"), Text("n/a"), Text("B"), Text("X"))}] :
                        n \in 0..MaxRows}}

InputPaths ==
    {<<Comp("data", e)>> : e \in Extensions}
        \cup {<<Comp("in", <<>>), Comp("data", e)>> : e \in Extensions}

InitRead ==
    /\ pc = "call"
    /\ args \in {[NoArgs EXCEPT !.input = p] : p \in InputPaths}
    /\ fs \in {{}, {args.input}, {dirname(args.input)}}
    /\ file \in [fault : ReadFaults]
    /\ df_in \in {d \in SmallFrames : Len(d.rows) \in {0, MaxRows}}
    /\ df = NoFrame
    /\ metrics = NoMetrics
    /\ freq = None
    /\ env = {}
    /\ charts = NoCharts
    /\ events = <<>>
    /\ raised = None
    /\ exitcode = -1

ReadTable ==
    /\ pc = "call"
    /\ LET r == read_table(fs, args.input, file.fault, df_in)
       IN  /\ df' = r.df
           /\ raised' = r.exc
           /\ pc' = IF r.ok THEN "returned" ELSE "raised"
    /\ UNCHANGED <<args, df_in, metrics, freq, file, env, fs, charts, events, exitcode>>

NextRead == ReadTable

SpecRead == InitRead /\ [][NextRead]_vars

\* C7: read_table raises FileNotFoundError when the path does not exist,
\* whatever its extension; ValueError when the path exists and its extension,
\* letter case ignored, is neither .csv nor .json; ValueError for every failure
\* while a .csv or .json file is read or parsed; and no other exception.
C7_ReadTableExceptions ==
    pc \in {"returned", "raised"} =>
        LET there == args.input \in fs
            ext   == args.input[Len(args.input)].ext
            known == ext \in {<<".", "c", "s", "v">>, <<".", "C", "S", "V">>,
                              <<".", "C", "s", "v">>, <<".", "j", "s", "o", "n">>,
                              <<".", "J", "S", "O", "N">>}
        IN  /\ ~there => (pc = "raised" /\ raised = "FileNotFoundError")
            /\ (there /\ ~known) => (pc = "raised" /\ raised = "ValueError")
            /\ (there /\ known /\ file.fault # "none") =>
                   (pc = "raised" /\ raised = "ValueError")
            /\ (there /\ known /\ file.fault = "none") =>
                   (pc = "returned" /\ raised = None /\ df = df_in)
            /\ raised \in {None, "FileNotFoundError", "ValueError"}

\* C7 witness: an existing DATA.CSV whose parsing fails is reported as ValueError.
C7_Witness ==
    /\ pc = "raised"
    /\ args.input \in fs
    /\ args.input[Len(args.input)].ext = <<".", "C", "S", "V">>
    /\ file.fault = "ParserError"
    /\ raised = "ValueError"


(***************************************************************************)
(* The chart functions of analysis.py: what each returns, the path of the  *)
(* image it saved or NoPath for None.                                      *)
(***************************************************************************)
OutputDir == <<Comp("output", <<>>)>>

Png(stem) == OutputDir \o <<Comp(stem, <<".", "p", "n", "g">>)>>

\* df[[a, b]].dropna()
RECURSIVE RowsWithBoth(_, _, _)
RowsWithBoth(rows, a, b) ==
    IF rows = <<>> THEN <<>>
    ELSE IF IsNA(Head(rows)[a]) \/ IsNA(Head(rows)[b]) THEN RowsWithBoth(Tail(rows), a, b)
         ELSE <<Head(rows)>> \o RowsWithBoth(Tail(rows), a, b)

\* plot_time_series and plot_top_items save an image for any table.
plot_time_series(ts, out_path) == out_path

plot_top_items(top, out_path) == out_path

plot_daily_count(d, date_col, out_path) ==
    IF ~Truthy(date_col) \/ date_col \notin d.cols THEN NoPath
    ELSE IF RowsWithValue(d.rows, date_col) = <<>> THEN NoPath
    ELSE out_path

plot_monthly_sales(d, date_col, amount_col, out_path) ==
    IF ~Truthy(date_col) \/ date_col \notin d.cols
       \/ ~Truthy(amount_col) \/ amount_col \notin d.cols THEN NoPath
    ELSE IF RowsWithBoth(d.rows, date_col, amount_col) = <<>> THEN NoPath
    ELSE out_path

plot_cumulative_sales(d, date_col, amount_col, out_path) ==
    IF ~Truthy(date_col) \/ date_col \notin d.cols
       \/ ~Truthy(amount_col) \/ amount_col \notin d.cols THEN NoPath
    ELSE IF RowsWithBoth(d.rows, date_col, amount_col) = <<>> THEN NoPath
    ELSE out_path

\* The histogram drawn for a single amount as well.
plot_distribution_single(d, amount_col, out_path) ==
    IF ~Truthy(amount_col) \/ amount_col \notin d.cols THEN NoPath
    ELSE IF Len(RowsWithValue(d.rows, amount_col)) < 1 THEN NoPath
    ELSE out_path

plot_distribution(d, amount_col, out_path) ==
    IF ~Truthy(amount_col) \/ amount_col \notin d.cols THEN NoPath
    ELSE IF Len(RowsWithValue(d.rows, amount_col)) < 2 THEN NoPath
    ELSE out_path

(***************************************************************************)
(* The report builders.  Each returns the file system it leaves and the    *)
(* exception it raises, None when it raises none.  failing says that the   *)
(* rendering itself fails (a template, a stylesheet, the PDF or PPTX       *)
(* library, the write).                                                    *)
(***************************************************************************)
\* create_output_directory(output_path)
create_output_directory(files, output_path) ==
    LET output_dir == dirname(output_path)
    IN  IF output_dir # <<>> /\ ~exists(files, output_dir)
        THEN makedirs(files, output_dir).fs
        ELSE files

\* The body both builders share: render, create the directory of the output
\* file, write the file; any exception is raised again as Exception.
build_report(files, output, failing) ==
    IF failing THEN [exc |-> "Exception", fs |-> files]
    ELSE LET made == makedirs(files, dirname(output))
         IN  IF ~made.ok THEN [exc |-> "Exception", fs |-> files]
             ELSE [exc |-> None, fs |-> made.fs \cup {output}]

build_pdf(files, output_pdf, failing) == build_report(files, output_pdf, failing)

build_pptx(files, output_pptx, failing) == build_report(files, output_pptx, failing)

(***************************************************************************)
(* main() of report_cli.py, from the return of parse_args on.              *)
(***************************************************************************)
stages ==
    <<"check_outputs", "validate_file_exists", "read_table", "enforce_types",
      "compute_metrics", "makedirs_output", "plot_time_series", "plot_top_items",
      "plot_daily_count", "plot_monthly_sales", "plot_cumulative_sales",
      "plot_distribution", "context", "build_pdf", "build_pptx", "summary">>

\* The presentation built before the PDF.
next_stage_pptx_first(stage) ==
    LET order == <<"check_outputs", "validate_file_exists", "read_table", "enforce_types",
                   "compute_metrics", "makedirs_output", "plot_time_series",
                   "plot_top_items", "plot_daily_count", "plot_monthly_sales",
                   "plot_cumulative_sales", "plot_distribution", "context", "build_pptx",
                   "build_pdf", "summary">>
        i     == CHOOSE k \in 1..Len(order) : order[k] = stage
    IN  IF i = Len(order) THEN "exit" ELSE order[i + 1]

\* The statement that follows a statement of main.
next_stage(stage) ==
    LET i == CHOOSE k \in 1..Len(stages) : stages[k] = stage
    IN  IF i = Len(stages) THEN "exit" ELSE stages[i + 1]

CliInputs ==
    {<<Comp("data", <<".", "c", "s", "v">>)>>, <<Comp("data", <<".", "J", "S", "O", "N">>)>>}

PdfPaths ==
    {NoPath, <<Comp("report", <<".", "p", "d", "f">>)>>,
     <<Comp("out", <<>>), Comp("report", <<".", "p", "d", "f">>)>>}

PptxPaths ==
    {NoPath, <<Comp("report", <<".", "p", "p", "t", "x">>)>>,
     <<Comp("out", <<>>), Comp("report", <<".", "p", "p", "t", "x">>)>>}

\* What the environment makes fail: saving a figure, rendering the PDF,
\* rendering the PPTX.
EnvFaults == {"savefig", "pdf", "pptx"}

InitCLI ==
    /\ pc = "check_outputs"
    /\ args \in {[input |-> i, datecol |-> dc, amountcol |-> ac, pdf |-> a, pptx |-> b,
                  topn |-> DefaultTopN] :
                    i \in CliInputs, dc \in {None, "date"}, ac \in {None, "amount"},
                    a \in PdfPaths, b \in PptxPaths}
    /\ fs \in {{}, {args.input}, {args.input, OutputDir}}
    /\ file \in [fault : {"none", "ParserError"}]
    /\ env \in SUBSET EnvFaults
    /\ df_in \in {d \in SmallFrames : Len(d.rows) \in {0, MaxRows}}
    /\ df = NoFrame
    /\ metrics = NoMetrics
    /\ freq = None
    /\ charts = NoCharts
    /\ events = <<>>
    /\ raised = None
    /\ exitcode = -1

\* sys.exit(1) after printing an error message.
ExitWithError(log) ==
    /\ events' = log \o <<"print_error">>
    /\ exitcode' = 1
    /\ pc' = "exit"

\* The exception printed and the run carried on with the next statement.
Except_carry_on(log, exc) ==
    /\ raised' = exc
    /\ events' = log \o <<"print_error">>
    /\ pc' = next_stage(pc)
    /\ UNCHANGED exitcode

\* The except clause of main: print the exception, exit with status 1.
Except(log, exc) ==
    /\ raised' = exc
    /\ ExitWithError(log)

\* The output formats checked only after the input file was looked for.
CliCheckOutputs_after_validate ==
    /\ pc = "check_outputs"
    /\ IF ~exists(fs, args.input) \/ (args.pdf = NoPath /\ args.pptx = NoPath)
       THEN ExitWithError(Append(events, "validate_file_exists"))
       ELSE /\ events' = Append(events, "validate_file_exists")
            /\ pc' = "read_table"
            /\ UNCHANGED exitcode
    /\ UNCHANGED <<args, df_in, df, metrics, freq, file, env, fs, charts, raised>>

CliCheckOutputs ==
    /\ pc = "check_outputs"
    /\ IF args.pdf = NoPath /\ args.pptx = NoPath
       THEN ExitWithError(events)
       ELSE /\ pc' = next_stage(pc)
            /\ UNCHANGED <<events, exitcode>>
    /\ UNCHANGED <<args, df_in, df, metrics, freq, file, env, fs, charts, raised>>

CliValidateInput ==
    /\ pc = "validate_file_exists"
    /\ IF ~exists(fs, args.input)
       THEN ExitWithError(Append(events, "validate_file_exists"))
       ELSE /\ events' = Append(events, "validate_file_exists")
            /\ pc' = next_stage(pc)
            /\ UNCHANGED exitcode
    /\ UNCHANGED <<args, df_in, df, metrics, freq, file, env, fs, charts, raised>>

CliReadTable ==
    /\ pc = "read_table"
    /\ LET r == read_table(fs, args.input, file.fault, df_in)
       IN  IF r.ok
           THEN /\ df' = r.df
                /\ events' = Append(events, "read_table")
                /\ pc' = next_stage(pc)
                /\ UNCHANGED <<raised, exitcode>>
           ELSE /\ Except(Append(events, "read_table"), r.exc)
                /\ UNCHANGED df
    /\ UNCHANGED <<args, df_in, metrics, freq, file, env, fs, charts>>

CliEnforceTypes ==
    /\ pc = "enforce_types"
    /\ df' = enforce_types(df, args.datecol, args.amountcol)
    /\ events' = Append(events, "enforce_types")
    /\ pc' = next_stage(pc)
    /\ UNCHANGED <<args, df_in, metrics, freq, file, env, fs, charts, raised, exitcode>>

CliComputeMetrics ==
    /\ pc = "compute_metrics"
    /\ metrics' \in compute_metrics(df, args.datecol, args.amountcol, args.topn)
    /\ freq' = time_series_freq(df, args.datecol, args.amountcol)
    /\ events' = Append(events, "compute_metrics")
    /\ pc' = next_stage(pc)
    /\ UNCHANGED <<args, df_in, df, file, env, fs, charts, raised, exitcode>>

CliMakeOutputDir ==
    /\ pc = "makedirs_output"
    /\ fs' = IF ~exists(fs, OutputDir) THEN makedirs(fs, OutputDir).fs ELSE fs
    /\ pc' = next_stage(pc)
    /\ UNCHANGED <<args, df_in, df, metrics, freq, file, env, charts, events, raised,
                   exitcode>>

\* One chart of main: called tells whether main calls the function, png is
\* what the function returns, kept in the local named by var.  A function that
\* saves a figure raises when the figure cannot be saved.
Chart(name, var, called, png) ==
    /\ pc = name
    /\ IF ~called
       THEN /\ pc' = next_stage(pc)
            /\ UNCHANGED <<fs, charts, events, raised, exitcode>>
       ELSE IF png = NoPath
       THEN /\ events' = Append(events, name)
            /\ charts' = [charts EXCEPT ![var] = NoPath]
            /\ pc' = next_stage(pc)
            /\ UNCHANGED <<fs, raised, exitcode>>
       ELSE IF "savefig" \in env
       THEN /\ Except(Append(events, name), "Exception")
            /\ UNCHANGED <<fs, charts>>
       ELSE /\ fs' = fs \cup {png}
            /\ charts' = [charts EXCEPT ![var] = png]
            /\ events' = Append(events, name)
            /\ pc' = next_stage(pc)
            /\ UNCHANGED <<raised, exitcode>>
    /\ UNCHANGED <<args, df_in, df, metrics, freq, file, env>>

CliPlotTimeSeries ==
    Chart("plot_time_series", "timeseries_png", metrics.time_series.rows # <<>>,
          plot_time_series(metrics.time_series, Png("timeseries")))

CliPlotTopItems ==
    Chart("plot_top_items", "top_items_png", metrics.top_items.rows # <<>>,
          plot_top_items(metrics.top_items, Png("top_items")))

CliPlotDailyCount ==
    Chart("plot_daily_count", "daily_count_png", TRUE,
          plot_daily_count(df, args.datecol, Png("daily_count")))

CliPlotMonthlySales ==
    Chart("plot_monthly_sales", "monthly_sales_png", TRUE,
          plot_monthly_sales(df, args.datecol, args.amountcol, Png("monthly_sales")))

CliPlotCumulativeSales ==
    Chart("plot_cumulative_sales", "cumulative_png", TRUE,
          plot_cumulative_sales(df, args.datecol, args.amountcol, Png("cumulative")))

CliPlotDistribution ==
    Chart("plot_distribution", "distribution_png", TRUE,
          plot_distribution(df, args.amountcol, Png("distribution")))

CliContext ==
    /\ pc = "context"
    /\ pc' = next_stage(pc)
    /\ UNCHANGED <<args, df_in, df, metrics, freq, file, env, fs, charts, events, raised,
                   exitcode>>

\* One report of main: skipped when its path was not given.
Report(name, output, built) ==
    /\ pc = name
    /\ IF output = NoPath
       THEN /\ pc' = next_stage(pc)
            /\ UNCHANGED <<fs, events, raised, exitcode>>
       ELSE IF built.exc # None
       THEN /\ fs' = built.fs
            /\ Except(Append(events, name), built.exc)
       ELSE /\ fs' = built.fs
            /\ events' = Append(events, name)
            /\ pc' = next_stage(pc)
            /\ UNCHANGED <<raised, exitcode>>
    /\ UNCHANGED <<args, df_in, df, metrics, freq, file, env, charts>>

CliBuildPdf ==
    Report("build_pdf", args.pdf,
           build_pdf(create_output_directory(fs, args.pdf), args.pdf, "pdf" \in env))

CliBuildPptx ==
    Report("build_pptx", args.pptx,
           build_pptx(create_output_directory(fs, args.pptx), args.pptx, "pptx" \in env))

CliSummary ==
    /\ pc = "summary"
    /\ events' = Append(events, "print_success")
    /\ exitcode' = 0
    /\ pc' = next_stage(pc)
    /\ UNCHANGED <<args, df_in, df, metrics, freq, file, env, fs, charts, raised>>

NextCLI ==
    \/ CliCheckOutputs
    \/ CliValidateInput
    \/ CliReadTable
    \/ CliEnforceTypes
    \/ CliComputeMetrics
    \/ CliMakeOutputDir
    \/ CliPlotTimeSeries
    \/ CliPlotTopItems
    \/ CliPlotDailyCount
    \/ CliPlotMonthlySales
    \/ CliPlotCumulativeSales
    \/ CliPlotDistribution
    \/ CliContext
    \/ CliBuildPdf
    \/ CliBuildPptx
    \/ CliSummary

SpecCLI == InitCLI /\ [][NextCLI]_vars

(***************************************************************************)
(* Vocabulary of the properties, stated on the tables themselves.          *)
(***************************************************************************)
HasColumn(d, col) == Truthy(col) /\ col \in d.cols

\* The sum of the numbers in column col over the rows with index in S.
RECURSIVE SumOver(_, _, _)
SumOver(rows, col, S) ==
    IF S = {} THEN 0
    ELSE LET i == CHOOSE x \in S : TRUE
         IN  (IF rows[i][col].kind = "num" THEN rows[i][col].v ELSE 0)
             + SumOver(rows, col, S \ {i})

\* The rows of d whose cell in column by is the value key.
IndicesOf(d, by, key) == {i \in 1..Len(d.rows) : d.rows[i][by] = key}

\* The distinct values of a column, a missing value not being one.
DistinctValues(d, col) ==
    {c \in {d.rows[i][col] : i \in 1..Len(d.rows)} : c.kind \notin {"nan", "nat"}}

Min(a, b) == IF a < b THEN a ELSE b

\* The grouping column the specification names: the first of item, product,
\* name, category that is a column, spelled exactly.
ExpectedGroupColumn(d) ==
    IF "item" \in d.cols THEN "item"
    ELSE IF "product" \in d.cols THEN "product"
    ELSE IF "name" \in d.cols THEN "name"
    ELSE IF "category" \in d.cols THEN "category"
    ELSE None

Grouped ==
    pc = "computed" /\ ExpectedGroupColumn(df) # None /\ HasColumn(df, args.amountcol)

\* C1: with a grouping column and amount_col present and topn >= 0, top_items
\* has exactly min(topn, G) rows, G the number of distinct grouping values; the
\* rows are distinct groups, each with the sum of its amounts, in non-increasing
\* order of amount, and no group left out has a larger sum than a group returned.
C1_TopItemsAreTheLargestGroups ==
    (Grouped /\ args.topn >= 0) =>
        LET by     == ExpectedGroupColumn(df)
            groups == DistinctValues(df, by)
            top    == metrics.top_items.rows
            sum(k) == SumOver(df.rows, args.amountcol, IndicesOf(df, by, k))
            shown  == {top[i].item : i \in 1..Len(top)}
        IN  /\ Len(top) = Min(args.topn, Cardinality(groups))
            /\ shown \subseteq groups
            /\ Cardinality(shown) = Len(top)
            /\ \A i \in 1..Len(top) : top[i].amount = sum(top[i].item)
            /\ \A i \in 1..Len(top) : \A j \in 1..Len(top) :
                   i < j => top[i].amount >= top[j].amount
            /\ \A k \in groups \ shown : \A i \in 1..Len(top) : sum(k) <= top[i].amount

\* C1 witness: three groups, two of them tied, and only the top two are returned.
C1_Witness ==
    /\ Grouped
    /\ args.topn = 2
    /\ Cardinality(DistinctValues(df, ExpectedGroupColumn(df))) = 3
    /\ Len(metrics.top_items.rows) = 2
    /\ metrics.top_items.rows[1].amount = metrics.top_items.rows[2].amount

\* C2: top_items is grouped by the first of item, product, name, category that
\* is exactly a column of df and by no other column; without such a column, or
\* with amount_col None or not a column, it is the empty table with the columns
\* item and amount.
C2_GroupingColumnIsFirstCandidate ==
    pc = "computed" =>
        LET by  == ExpectedGroupColumn(df)
            top == metrics.top_items
        IN  /\ top.columns = <<"item", "amount">>
            /\ (by = None \/ ~HasColumn(df, args.amountcol)) => top.rows = <<>>
            /\ (by # None /\ HasColumn(df, args.amountcol)) =>
                   \A i \in 1..Len(top.rows) :
                          /\ top.rows[i].item \in DistinctValues(df, by)
                          /\ top.rows[i].amount =
                               SumOver(df.rows, args.amountcol,
                                       IndicesOf(df, by, top.rows[i].item))

\* C2 witness: product and name are both columns, and the table is grouped by
\* the values of product.
C2_Witness ==
    /\ pc = "computed"
    /\ {"product", "name"} \subseteq df.cols
    /\ Len(metrics.top_items.rows) = 2
    /\ \A i \in 1..2 : metrics.top_items.rows[i].item \in {Text("X"), Text("Y")}

\* C4: total_sales is the sum and avg_ticket the mean of the amount_col values
\* over all rows when amount_col is a column, both are 0.0 when amount_col is
\* None or not a column, and total_orders is always the number of rows.
C4_TotalsOverAllRows ==
    pc = "computed" =>
        LET n     == Len(df.rows)
            total == SumOver(df.rows, args.amountcol, 1..n)
        IN  /\ metrics.total_orders = n
            /\ HasColumn(df, args.amountcol) =>
                   /\ metrics.total_sales = [kind |-> "frac", num |-> total, den |-> 1]
                   /\ n = 0 => metrics.avg_ticket = NaN
                   /\ n > 0 =>
                        /\ metrics.avg_ticket.kind = "frac"
                        /\ metrics.avg_ticket.den > 0
                        /\ metrics.avg_ticket.num * n = total * metrics.avg_ticket.den
            /\ ~HasColumn(df, args.amountcol) =>
                   /\ metrics.total_sales = [kind |-> "frac", num |-> 0, den |-> 1]
                   /\ metrics.avg_ticket = [kind |-> "frac", num |-> 0, den |-> 1]

\* C4 witness: three rows whose amounts do not divide evenly.
C4_Witness ==
    /\ pc = "computed"
    /\ HasColumn(df, args.amountcol)
    /\ metrics.total_orders = 3
    /\ metrics.avg_ticket.kind = "frac"
    /\ metrics.avg_ticket.den = 3

\* The value of a decimal numeral, digit by digit from the left.
Decimal(ds) ==
    LET RECURSIVE Acc(_, _)
        Acc(i, v) == IF i > Len(ds) THEN v ELSE Acc(i + 1, 10 * v + ds[i])
    IN  Acc(1, 0)

\* The number a raw amount stands for, 0 when it stands for none.
AmountOrZero(c) ==
    IF c.kind = "num" THEN c.v
    ELSE IF c.kind = "num_text" /\ Len(c.digits) > 0
         THEN (IF c.neg THEN 0 - Decimal(c.digits) ELSE Decimal(c.digits))
         ELSE 0

\* A raw date cell that reads as a date of the calendar.
ParsesAsDate(c) ==
    /\ c.kind = "date_text"
    /\ c.m \in 1..12
    /\ c.d >= 1
    /\ c.d <= (IF c.m = 2 THEN (IF c.y % 4 = 0 THEN 29 ELSE 28)
               ELSE IF c.m \in {4, 6, 9, 11} THEN 30 ELSE 31)

\* The rows of the input that enforce_types is to keep, in their order.
KeptIndices ==
    IF HasColumn(df_in, args.datecol)
    THEN Ascending({i \in 1..Len(df_in.rows) : ParsesAsDate(df_in.rows[i][args.datecol])})
    ELSE Ascending(1..Len(df_in.rows))

\* C5: with date_col a column, enforce_types returns exactly the input rows
\* whose date parses, in their original order, none with a missing date; with
\* date_col None or not a column no row is dropped.
C5_RowsWithoutDateDropped ==
    pc # "raw" =>
        /\ Len(df.rows) = Len(KeptIndices)
        /\ \A k \in 1..Len(df.rows) :
               \A c \in df.cols \ {args.datecol, args.amountcol} :
                   df.rows[k][c] = df_in.rows[KeptIndices[k]][c]
        /\ \A k \in 1..Len(df.rows) :
               HasColumn(df_in, args.amountcol) =>
                   df.rows[k][args.amountcol].v =
                       AmountOrZero(df_in.rows[KeptIndices[k]][args.amountcol])
        /\ HasColumn(df_in, args.datecol) =>
               \A k \in 1..Len(df.rows) : df.rows[k][args.datecol].kind = "ts"
        /\ ~HasColumn(df_in, args.datecol) => Len(df.rows) = Len(df_in.rows)

\* C5 witness: a row without a valid date between two rows that have one; the
\* two are returned in their order.
C5_Witness ==
    /\ pc = "typed"
    /\ HasColumn(df_in, args.datecol)
    /\ Len(df_in.rows) = 3
    /\ ~ParsesAsDate(df_in.rows[2][args.datecol])
    /\ Len(df.rows) = 2
    /\ df.rows[1]["item"] = Text("A")
    /\ df.rows[2]["item"] = Text("B")

\* C6: with amount_col a column, enforce_types drops no row because of its
\* amount; an amount that parses as a number is kept as that number, any other
\* becomes 0, and no amount of the result is missing.
C6_AmountsCoercedNeverDropped ==
    (pc # "raw" /\ HasColumn(df_in, args.amountcol)) =>
        /\ Len(df.rows) = Len(KeptIndices)
        /\ \A k \in 1..Len(df.rows) :
               /\ df.rows[k][args.amountcol].kind = "num"
               /\ df.rows[k][args.amountcol].v =
                      AmountOrZero(df_in.rows[KeptIndices[k]][args.amountcol])

\* C6 witness: a table with a two-digit amount, a negative one, a text and a
\* missing one comes back with 12, -4 and two zeros.
C6_Witness ==
    /\ pc = "typed"
    /\ HasColumn(df_in, args.amountcol)
    /\ Len(df_in.rows) = 3
    /\ Len(df.rows) = 3
    /\ df_in.rows[1][args.amountcol] = NumText(TRUE, <<4>>)
    /\ df_in.rows[2][args.amountcol] = Text("n/a")
    /\ df_in.rows[3][args.amountcol] = NaN
    /\ df.rows[1][args.amountcol] = Num(-4)
    /\ df.rows[2][args.amountcol] = Num(0)
    /\ df.rows[3][args.amountcol] = Num(0)

\* The timestamps of the typed table's date column.
Stamps == {df.rows[i][args.datecol].t : i \in 1..Len(df.rows)}

\* Whole days between the earliest and the latest date with data.
SpanDays == (SetMax(Stamps) - SetMin(Stamps)) \div 2

Resampled ==
    /\ pc = "computed"
    /\ HasColumn(df, args.datecol)
    /\ HasColumn(df, args.amountcol)
    /\ Len(df.rows) > 0

\* C3: the granularity follows the span in whole days between the earliest and
\* the latest date: more than 180 days gives month-start buckets, more than 60
\* and at most 180 gives weekly buckets anchored on Monday, at most 60 gives
\* daily buckets; exactly one granularity is chosen for every non-empty input.
C3_GranularityFromSpan ==
    /\ Resampled =>
        LET ts == metrics.time_series.rows
        IN  /\ freq \in {"MS", "W-MON", "D"}
            /\ freq = "MS" <=> SpanDays > 180
            /\ freq = "W-MON" <=> (SpanDays > 60 /\ SpanDays <= 180)
            /\ freq = "D" <=> SpanDays <= 60
            /\ Len(ts) > 0
            /\ freq = "MS" =>
                   \A i \in 1..Len(ts) :
                       ts[i].date \in {0, 62, 120, 182, 242, 304, 364}
            /\ freq = "W-MON" => \A i \in 1..Len(ts) : ts[i].date % 14 = 0
            /\ freq = "D" => \A i \in 1..Len(ts) : ts[i].date % 2 = 0
    /\ (pc = "computed" /\ ~Resampled) => freq = None

\* C3 witness: a span of exactly 180 days is resampled by week.
C3_Witness ==
    /\ Resampled
    /\ SpanDays = 180
    /\ SetMax(Stamps) - SetMin(Stamps) = 360
    /\ freq = "W-MON"
    /\ Len(metrics.time_series.rows) > 20

\* The calls of main in the order the specification gives them.
PipelineOrder ==
    <<"validate_file_exists", "read_table", "enforce_types", "compute_metrics",
      "plot_time_series", "plot_top_items", "plot_daily_count", "plot_monthly_sales",
      "plot_cumulative_sales", "plot_distribution", "build_pdf", "build_pptx",
      "print_success", "print_error">>

Rank(e) == CHOOSE k \in 1..Len(PipelineOrder) : PipelineOrder[k] = e

Called(e) == \E i \in 1..Len(events) : events[i] = e

AnyChartCalled ==
    \E e \in {"plot_time_series", "plot_top_items", "plot_daily_count",
              "plot_monthly_sales", "plot_cumulative_sales", "plot_distribution"} :
        Called(e)

\* C8: a run goes load, type coercion, compute_metrics, charts, PDF, PPTX in
\* this order: compute_metrics receives the output of enforce_types, charts are
\* rendered only after the metrics exist, a report builder is called only after
\* every chart was rendered or skipped, and the PDF is built before the PPTX.
C8_StagesInOrder ==
    /\ \A i \in 1..Len(events) : \A j \in 1..Len(events) :
           i < j => Rank(events[i]) < Rank(events[j])
    /\ Called("enforce_types") => Called("read_table")
    /\ Called("compute_metrics") =>
           /\ Called("enforce_types")
           /\ df = enforce_types(df_in, args.datecol, args.amountcol)
           /\ metrics \in compute_metrics(df, args.datecol, args.amountcol, args.topn)
    /\ AnyChartCalled => Called("compute_metrics")
    /\ (Called("build_pdf") \/ Called("build_pptx")) =>
           /\ Called("compute_metrics")
           /\ Called("plot_time_series") \/ metrics.time_series.rows = <<>>
           /\ Called("plot_top_items") \/ metrics.top_items.rows = <<>>
           /\ Called("plot_daily_count")
           /\ Called("plot_monthly_sales")
           /\ Called("plot_cumulative_sales")
           /\ Called("plot_distribution")
    /\ (Called("build_pptx") /\ args.pdf # NoPath) => Called("build_pdf")

\* C8 witness: a run that built both reports after all six charts.
C8_Witness ==
    /\ pc = "exit"
    /\ exitcode = 0
    /\ Len(events) = 13
    /\ events[11] = "build_pdf"
    /\ events[12] = "build_pptx"

NoOutputRequested == args.pdf = NoPath /\ args.pptx = NoPath

IsBareName(path) == Len(path) = 1

\* A run on a valid input that nothing in the environment makes fail.
CleanRun == args.input \in fs /\ file.fault = "none" /\ env = {}

\* C10: on a valid input, a report path that is a bare file name is written
\* and the run finishes successfully, as for a path with a directory part.
C10_BareNameReportWritten ==
    (pc = "exit" /\ CleanRun /\ ~NoOutputRequested) =>
        /\ exitcode = 0
        /\ args.pdf # NoPath => args.pdf \in fs
        /\ args.pptx # NoPath => args.pptx \in fs

\* The rendering of the report fails, or its directory cannot be created.
PdfFails == "pdf" \in env \/ dirname(args.pdf) = <<>>
PptxFails == "pptx" \in env \/ dirname(args.pptx) = <<>>

\* C11: a failure inside build_pdf or build_pptx reaches the caller as an
\* Exception; an exception at any stage after the argument validation ends the
\* run with status 1 and without the success message; when the PDF build fails
\* with both outputs requested, the PPTX build is never started.
C11_ExceptionsEndTheRun ==
    /\ raised # None =>
           /\ pc = "exit"
           /\ exitcode = 1
           /\ ~Called("print_success")
           /\ events[Len(events)] = "print_error"
    /\ (Called("build_pdf") /\ PdfFails) =>
           /\ raised = "Exception"
           /\ ~Called("build_pptx")
           /\ args.pptx \notin fs
    /\ (Called("build_pptx") /\ PptxFails) => raised = "Exception"
    /\ (pc = "exit" /\ raised = None /\ exitcode = 1) =>
           events \in {<<"print_error">>, <<"validate_file_exists", "print_error">>}

\* C11 witness: both reports requested, the PDF rendering fails, and the run
\* has ended with status 1 right after the call of build_pdf.
C11_Witness ==
    /\ pc = "exit"
    /\ args.pdf # NoPath
    /\ args.pptx # NoPath
    /\ ~IsBareName(args.pdf)
    /\ "pdf" \in env
    /\ raised = "Exception"
    /\ exitcode = 1
    /\ Len(events) > 2
    /\ events[Len(events) - 1] = "build_pdf"

\* The call of a chart function has returned (it did not raise).
HasReturned(name) ==
    /\ Called(name)
    /\ ~(raised # None /\ Len(events) > 1 /\ events[Len(events) - 1] = name)

\* The number of rows of df with a value in every column of cols.
ValidRows(cols) ==
    Cardinality({i \in 1..Len(df.rows) :
                    \A c \in cols : df.rows[i][c].kind \notin {"nan", "nat"}})

\* What C12 says of one chart function: need is the least number of valid rows.
ChartContract(name, var, stem, cols, need) ==
    LET out_path == <<Comp("output", <<>>), Comp(stem, <<".", "p", "n", "g">>)>>
        usable   == (\A c \in cols : HasColumn(df, c)) /\ ValidRows(cols) >= need
    IN  /\ HasReturned(name) =>
               /\ charts[var] \in {out_path, NoPath}
               /\ charts[var] = out_path <=> out_path \in fs
               /\ ~usable => (charts[var] = NoPath /\ out_path \notin fs)
               /\ usable => charts[var] = out_path
        /\ ~HasReturned(name) => (charts[var] = NoPath /\ out_path \notin fs)

\* C12: plot_daily_count, plot_monthly_sales, plot_cumulative_sales and
\* plot_distribution return out_path exactly when they wrote the image, and
\* return None, writing nothing, when a required column is None, is not a
\* column or has no valid data (plot_distribution: fewer than 2 amounts).
C12_ChartWrittenIffReturned ==
    /\ ChartContract("plot_daily_count", "daily_count_png", "daily_count",
                     {args.datecol}, 1)
    /\ ChartContract("plot_monthly_sales", "monthly_sales_png", "monthly_sales",
                     {args.datecol, args.amountcol}, 1)
    /\ ChartContract("plot_cumulative_sales", "cumulative_png", "cumulative",
                     {args.datecol, args.amountcol}, 1)
    /\ ChartContract("plot_distribution", "distribution_png", "distribution",
                     {args.amountcol}, 2)

\* C12 witness: one row with a date and an amount; the three date charts are
\* written and the histogram is not.
C12_Witness ==
    /\ HasReturned("plot_distribution")
    /\ HasColumn(df, args.datecol)
    /\ HasColumn(df, args.amountcol)
    /\ Len(df.rows) = 1
    /\ charts.daily_count_png \in fs
    /\ charts.monthly_sales_png \in fs
    /\ charts.cumulative_png \in fs
    /\ charts.distribution_png = NoPath
    /\ Png("distribution") \notin fs

Max(a, b) == IF a > b THEN a ELSE b

\* C13: for every integer topn, negative ones and 0 included, top_items holds
\* at most max(topn, 0) rows.
C13_TopItemsAtMostTopN ==
    pc = "computed" => Len(metrics.top_items.rows) <= Max(args.topn, 0)

\* The sum of the amount column of a table of metrics.
RECURSIVE SumAmounts(_)
SumAmounts(rows) ==
    IF rows = <<>> THEN 0 ELSE Head(rows).amount + SumAmounts(Tail(rows))

\* Every group fits into the top list.
AllGroupsFit ==
    /\ Grouped
    /\ args.topn >= Cardinality(DistinctValues(df, ExpectedGroupColumn(df)))

\* C15 as stated: with topn at least the number of distinct groups, the
\* amounts of top_items add up to total_sales, rows with a missing grouping
\* value included.
C15_TopItemsSumToTotal ==
    AllGroupsFit => SumAmounts(metrics.top_items.rows) = metrics.total_sales.num

\* C15 as amended: with topn at least the number of distinct groups, the
\* amounts of top_items add up to the amounts of the rows that have a grouping
\* value; a row whose grouping value is missing is in no group.
C15_TopItemsSumOverKeyedRows ==
    AllGroupsFit =>
        LET by    == ExpectedGroupColumn(df)
            keyed == {i \in 1..Len(df.rows) : df.rows[i][by].kind \notin {"nan", "nat"}}
        IN  /\ SumAmounts(metrics.top_items.rows) = SumOver(df.rows, args.amountcol, keyed)
            /\ metrics.total_sales.num - SumAmounts(metrics.top_items.rows)
                   = SumOver(df.rows, args.amountcol, (1..Len(df.rows)) \ keyed)

\* C15 witness: two groups and a row without a grouping value whose amount is
\* missing from the top list.
C15_Witness ==
    /\ AllGroupsFit
    /\ Len(metrics.top_items.rows) = 2
    /\ \E i \in 1..Len(df.rows) :
           /\ df.rows[i][ExpectedGroupColumn(df)] = NaN
           /\ df.rows[i][args.amountcol] = Num(-4)
    /\ SumAmounts(metrics.top_items.rows) = metrics.total_sales.num + 4

\* C16: with amount_col present avg_ticket is a finite number and avg_ticket
\* times total_orders is total_sales; for a table without rows all three are 0.
C16_AvgTicketFinite ==
    (pc = "computed" /\ HasColumn(df, args.amountcol)) =>
        /\ metrics.avg_ticket.kind = "frac"
        /\ metrics.avg_ticket.num * metrics.total_orders
               = metrics.total_sales.num * metrics.avg_ticket.den
        /\ Len(df.rows) = 0 =>
               /\ metrics.total_sales.num = 0
               /\ metrics.total_orders = 0
               /\ metrics.avg_ticket.num = 0

\* C14: with date_col and amount_col both present, every row's amount is in
\* exactly one bucket: the amounts of time_series add up to total_sales, for
\* each of the three granularities.
C14_TimeSeriesSumsToTotal ==
    (pc = "computed" /\ HasColumn(df, args.datecol) /\ HasColumn(df, args.amountcol)) =>
        /\ SumAmounts(metrics.time_series.rows) = metrics.total_sales.num
        /\ metrics.total_sales.den = 1
        /\ Len(df.rows) > 0 => Len(metrics.time_series.rows) > 0

\* C14 witness: weekly buckets, two rows on one date, and a total that no
\* single bucket holds.
C14_Witness ==
    /\ Resampled
    /\ freq = "W-MON"
    /\ Len(df.rows) = 3
    /\ Cardinality(Stamps) = 2
    /\ metrics.total_sales.num > 0
    /\ \A i \in 1..Len(metrics.time_series.rows) :
           metrics.time_series.rows[i].amount < metrics.total_sales.num
    /\ SumAmounts(metrics.time_series.rows) = metrics.total_sales.num

\* The first days of the months, in days since 2024-01-01.
MonthStartDays == <<0, 31, 60, 91, 121, 152, 182, 213, 244, 274, 305, 335, 366>>

\* Timestamp t lies in the bucket labelled at: a day from midnight on, a week
\* from Tuesday through the Monday that labels it, a calendar month.
InBucket(fq, at, t) ==
    IF fq = "D" THEN at % 2 = 0 /\ at <= t /\ t < at + 2
    ELSE IF fq = "W-MON"
         THEN at % 14 = 0 /\ at - 14 < 2 * (t \div 2) /\ 2 * (t \div 2) <= at
    ELSE \E k \in 1..(Len(MonthStartDays) - 1) :
             /\ at = 2 * MonthStartDays[k]
             /\ at <= t
             /\ t < 2 * MonthStartDays[k + 1]

\* Bucket b follows bucket a with no bucket between them.
NextBucket(fq, a, b) ==
    IF fq = "D" THEN b = a + 2
    ELSE IF fq = "W-MON" THEN b = a + 14
    ELSE \E k \in 1..(Len(MonthStartDays) - 1) :
             a = 2 * MonthStartDays[k] /\ b = 2 * MonthStartDays[k + 1]

\* C17: a non-empty time_series has strictly increasing dates, one row for
\* every bucket of the chosen granularity from the bucket of the earliest date
\* through the bucket of the latest, without gaps or duplicates; a bucket no
\* row falls into has amount 0.
C17_TimeSeriesCoversEveryBucket ==
    (pc = "computed" /\ metrics.time_series.rows # <<>>) =>
        LET ts == metrics.time_series.rows
            n  == Len(ts)
        IN  /\ Resampled
            /\ \A i \in 1..(n - 1) :
                   ts[i].date < ts[i + 1].date /\ NextBucket(freq, ts[i].date, ts[i + 1].date)
            /\ InBucket(freq, ts[1].date, SetMin(Stamps))
            /\ InBucket(freq, ts[n].date, SetMax(Stamps))
            /\ \A i \in 1..n :
                   ts[i].amount =
                       SumOver(df.rows, args.amountcol,
                               {r \in 1..Len(df.rows) :
                                   InBucket(freq, ts[i].date, df.rows[r][args.datecol].t)})

\* C17 witness: monthly buckets from January to June with data in the first
\* and the last only: six rows, the four in between with amount 0.
C17_Witness ==
    /\ Resampled
    /\ freq = "MS"
    /\ Len(metrics.time_series.rows) = 6
    /\ metrics.time_series.rows[1].amount > 0
    /\ \A i \in 2..5 : metrics.time_series.rows[i].amount = 0
    /\ metrics.time_series.rows[6].amount > 0

\* C18: enforce_types leaves the DataFrame it is given unchanged, whatever
\* date_col and amount_col are; coercion and row removal show in the returned
\* DataFrame only.
C18_InputFrameUnchanged ==
    [][pc = "raw" => (pc' = "typed" /\ df_in' = df_in)]_vars

\* C18 witness: enforce_types has dropped a row and converted the columns, and
\* the table it was given still holds its three rows of texts.
C18_Witness ==
    /\ pc = "typed"
    /\ HasColumn(df_in, args.datecol)
    /\ HasColumn(df_in, args.amountcol)
    /\ Len(df_in.rows) = 3
    /\ Len(df.rows) = 2
    /\ \A i \in 1..2 : df.rows[i][args.datecol].kind = "ts"
    /\ \A i \in 1..2 : df.rows[i][args.amountcol].kind = "num"
    /\ \A i \in 1..3 : df_in.rows[i][args.datecol].kind \in {"date_text", "nan"}
    /\ \A i \in 1..3 : df_in.rows[i][args.amountcol].kind \in {"num_text", "text"}

====
